---- MODULE Spec2Model ----
(***************************************************************************)
(* react-gopay-miniapp: the call-adaptation layer of useMiniapp (call,     *)
(* callWithCallbacks and the 16 helpers over window.gpContainer.call) and  *)
(* the readiness wiring of useMiniapp over useJSAPILoader.                 *)
(***************************************************************************)
EXTENDS Naturals, Sequences, FiniteSets

VARIABLES
  gpContainer,      \* TRUE iff window.gpContainer is present (truthy)
  defaultTimeoutOption, \* options.defaultTimeout as the caller of useMiniapp gave it
  calls,            \* one record per invocation of call / callWithCallbacks / a helper
  hooks,            \* per hook instance: its React state, its refs, its effect
  scripts           \* the script elements with the SDK URL, in creation order

vars == <<gpContainer, defaultTimeoutOption, calls, hooks, scripts>>

(***************************************************************************)
(* Bounds of the model.                                                    *)
(***************************************************************************)
\* invocations of call / callWithCallbacks / helpers in one behaviour, where one
\* invocation is examined under every bridge behaviour and argument
MaxCalls == 1
\* invocations that may be outstanding at once
MaxOutstanding == 2
\* callback invocations the bridge makes in one behaviour (sync and async)
MaxDeliveries == 2
\* script elements with the SDK URL created in one behaviour
MaxScripts == 3
\* 'load' listeners added to one script element
MaxListeners == 2

\* hook instances; an instance is mounted at most once
Instances == {1, 2}

(***************************************************************************)
(* JavaScript values, as far as the layer looks at them.                   *)
(***************************************************************************)
JsUndefined == [t |-> "undefined", str |-> "", num |-> 0, obj |-> {}]

JsString(s) == [t |-> "string", str |-> s, num |-> 0, obj |-> {}]

JsNumber(n) == [t |-> "number", str |-> "", num |-> n, obj |-> {}]

\* an object literal: a set of <<key, value>> pairs
JsObject(fields) == [t |-> "object", str |-> "", num |-> 0, obj |-> fields]

\* a default parameter value (p = d): d replaces undefined only
DefaultParam(v, d) == IF v = JsUndefined THEN d ELSE v

\* the default of the defaultTimeout option
DEFAULT_TIMEOUT == 300000

\* the defaultTimeout option of the tests
TEST_DEFAULT_TIMEOUT == 10000

\* the explicit timeout of the tests
TEST_TIMEOUT == 5000


(***************************************************************************)
(* Envelopes. A response is whatever the bridge hands over (unknown);      *)
(* the layer reads only its success field.                                 *)
(***************************************************************************)
\* faulty variant: the CALL_EXCEPTION literal copied into the guard
SdkNotLoadedErrorCopied ==
  [success |-> FALSE, error_code |-> "CALL_EXCEPTION", error_type |-> "JS_BRIDGE_ERROR",
   error_message |-> "GoPay SDK is not loaded yet", ret |-> "GP_EXCEPTION"]

SdkNotLoadedError ==
  [success |-> FALSE, error_code |-> "SDK_NOT_LOADED", error_type |-> "JS_BRIDGE_ERROR",
   error_message |-> "GoPay SDK is not loaded yet", ret |-> "GP_EXCEPTION"]

CallExceptionError(errorMessage) ==
  [success |-> FALSE, error_code |-> "CALL_EXCEPTION", error_type |-> "JS_BRIDGE_ERROR",
   error_message |-> errorMessage, ret |-> "GP_EXCEPTION"]

\* faulty variant: the thrown value's message is dropped
ErrorMessageOfUnknown(err) == "Unknown error occurred"

\* err instanceof Error ? err.message : 'Unknown error occurred'
ErrorMessageOf(err) == IF err.isError THEN err.message ELSE "Unknown error occurred"

\* if (gopayResponse.success): the truthiness of the field, undefined when absent
SuccessField(response) == "success" \in DOMAIN response /\ response.success

SuccessResponse ==
  [success |-> TRUE, ret |-> "GP_SUCCESS", data |-> {<<"id", JsNumber(123)>>}]

ErrorResponse ==
  [success |-> FALSE, error_code |-> "TEST_ERROR", error_type |-> "JS_BRIDGE_ERROR",
   error_message |-> "Test error message", ret |-> "GP_EXCEPTION"]

\* an envelope that fits neither variant: no success field at all
OddResponse == [ret |-> "GP_TIMEOUT", error_code |-> "TIMEOUT"]

Responses == {SuccessResponse, ErrorResponse, OddResponse}

\* what the bridge does with the two callbacks it was given
Deliveries == [channel : {"success", "failure"}, response : Responses]

\* values a bridge (or a caller's callback) may throw
ThrownError == [isError |-> TRUE, hasMessage |-> TRUE, message |-> "Test exception"]

ThrownString == [isError |-> FALSE, hasMessage |-> FALSE, message |-> ""]

ThrownObject == [isError |-> FALSE, hasMessage |-> TRUE, message |-> "bridge down"]

CallbackError == [isError |-> TRUE, hasMessage |-> TRUE, message |-> "callback failed"]

Thrown == {ThrownError, ThrownString, ThrownObject}

NoThrow == <<>>

SeqsUpTo(S, n) == UNION {[1..k -> S] : k \in 0..n}

(***************************************************************************)
(* call: the promise and the two callbacks handed to the bridge.           *)
(* A promise is <<>> while pending and holds its one settlement after.     *)
(***************************************************************************)
settle(promise, kind, value) ==
  IF promise = <<>> THEN <<[kind |-> kind, value |-> value]>> ELSE promise

resolve(promise, value) == settle(promise, "resolved", value)

reject(promise, value) == settle(promise, "rejected", value)

\* faulty variant: the success channel implies success
callSuccessCallbackChannelOnly(promise, response) == resolve(promise, response)

\* (response) => { if (gopayResponse.success) resolve(...) else reject(...) }
callSuccessCallback(promise, response) ==
  IF SuccessField(response) THEN resolve(promise, response) ELSE reject(promise, response)

\* faulty variant: the bridge's error is replaced by the layer's own
callFailureCallbackWrapped(promise, error) ==
  reject(promise, CallExceptionError("Unknown error occurred"))

\* (error) => { reject(gopayError) }
callFailureCallback(promise, error) == reject(promise, error)

callDeliver(promise, d) ==
  IF d.channel = "success" THEN callSuccessCallback(promise, d.response)
  ELSE callFailureCallback(promise, d.response)

RECURSIVE callRunSync(_, _)
\* the callbacks the bridge invokes before its call returns or throws
callRunSync(promise, ds) ==
  IF ds = <<>> THEN promise ELSE callRunSync(callDeliver(promise, Head(ds)), Tail(ds))

\* catch (err) { reject({... error_code: 'CALL_EXCEPTION', error_message: errorMessage ...}) }
callCatch(promise, thr) ==
  IF thr = NoThrow THEN promise
  ELSE reject(promise, CallExceptionError(ErrorMessageOf(thr[1])))

\* faulty variant: the guard is missing
bridgeAbsentNever == FALSE

\* if (!window.gpContainer)
bridgeAbsent == ~gpContainer

\* const { defaultTimeout = 300000 } = options
defaultTimeout == DefaultParam(defaultTimeoutOption, JsNumber(DEFAULT_TIMEOUT))

\* faulty variant: the explicit timeout is not passed on
bridgeArgsDefaultTimeout(className, methodName, params, timeout) ==
  [className |-> className, methodName |-> methodName,
   params |-> DefaultParam(params, JsObject({})),
   timeout |-> defaultTimeout]

\* window.gpContainer.call(className, methodName, params, ..., timeout), with the
\* default parameter values params = {} and timeout = defaultTimeout applied
bridgeArgs(className, methodName, params, timeout) ==
  [className |-> className, methodName |-> methodName,
   params |-> DefaultParam(params, JsObject({})),
   timeout |-> DefaultParam(timeout, defaultTimeout)]

\* faulty variant: an invocation identical to an earlier one does not reach the bridge
bridgeInvocationsDeduplicated(className, methodName, params, timeout) ==
  IF \E c \in 1..Len(calls) :
       calls[c].bridgeCalls = <<bridgeArgs(className, methodName, params, timeout)>>
  THEN <<>>
  ELSE <<bridgeArgs(className, methodName, params, timeout)>>

\* the bridge invocations one invocation of the layer makes
bridgeInvocations(className, methodName, params, timeout) ==
  <<bridgeArgs(className, methodName, params, timeout)>>

\* what one invocation of call leaves behind
callOutcome(className, methodName, params, timeout, sync, thr) ==
  IF bridgeAbsent
  THEN [bridgeCalls |-> <<>>, deliveries |-> <<>>, sync |-> 0, thrown |-> NoThrow,
        promise |-> reject(<<>>, SdkNotLoadedError), cbLog |-> <<>>]
  ELSE [bridgeCalls |-> bridgeInvocations(className, methodName, params, timeout),
        deliveries |-> sync, sync |-> Len(sync), thrown |-> thr,
        promise |-> callCatch(callRunSync(<<>>, sync), thr), cbLog |-> <<>>]

(***************************************************************************)
(* callWithCallbacks: the caller's two callbacks, invoked directly.        *)
(* cbLog lists the caller's callbacks in the order they were invoked.      *)
(***************************************************************************)
\* faulty variant: every response of the success channel goes to failureCallback
cbSuccessCallbackAlwaysFails(cbLog, response) ==
  Append(cbLog, [cb |-> "failureCallback", value |-> response])

\* (response) => { if (gopayResponse.success) successCallback(...) else failureCallback(...) }
cbSuccessCallback(cbLog, response) ==
  Append(cbLog, [cb |-> IF SuccessField(response) THEN "successCallback"
                        ELSE "failureCallback",
                 value |-> response])

\* (error) => { failureCallback(error) }
cbFailureCallback(cbLog, error) ==
  Append(cbLog, [cb |-> "failureCallback", value |-> error])

cbDeliver(cbLog, d) ==
  IF d.channel = "success" THEN cbSuccessCallback(cbLog, d.response)
  ELSE cbFailureCallback(cbLog, d.response)

RECURSIVE cbRunSync(_, _, _)
\* the callbacks the bridge invokes before its call returns or throws; a caller's
\* callback that throws unwinds the bridge's call into the catch block
cbRunSync(st, ds, throwing) ==
  IF ds = <<>> \/ st.thrown # NoThrow THEN st
  ELSE LET log == cbDeliver(st.cbLog, Head(ds))
       IN cbRunSync([cbLog |-> log,
                     made |-> Append(st.made, Head(ds)),
                     thrown |-> IF log[Len(log)].cb \in throwing
                                THEN <<CallbackError>> ELSE NoThrow],
                    Tail(ds), throwing)

\* catch (err) { failureCallback({... error_code: 'CALL_EXCEPTION' ...}) }
cbCatch(cbLog, thr) ==
  IF thr = NoThrow THEN cbLog
  ELSE cbFailureCallback(cbLog, CallExceptionError(ErrorMessageOf(thr[1])))

\* what one invocation of callWithCallbacks leaves behind
cbOutcome(className, methodName, params, timeout, throwing, sync, thr) ==
  IF bridgeAbsent
  THEN [bridgeCalls |-> <<>>, deliveries |-> <<>>, sync |-> 0, thrown |-> NoThrow,
        promise |-> <<>>, cbLog |-> cbFailureCallback(<<>>, SdkNotLoadedError)]
  ELSE LET run == cbRunSync([cbLog |-> <<>>, made |-> <<>>, thrown |-> NoThrow],
                            sync, throwing)
           caught == IF run.thrown # NoThrow THEN run.thrown ELSE thr
       IN [bridgeCalls |-> bridgeInvocations(className, methodName, params, timeout),
           deliveries |-> run.made, sync |-> Len(run.made), thrown |-> caught,
           promise |-> <<>>, cbLog |-> cbCatch(run.cbLog, caught)]

(***************************************************************************)
(* The 16 helpers: each passes a fixed class and method and a shaped       *)
(* params object to call, and no timeout.                                  *)
(***************************************************************************)
ObjectHelpers ==
  {"getAuthCode", "getLocation", "getSystemInfo", "getWifiInfo", "getRootedDeviceInfo",
   "getBankAccountToken", "startAccelerometer", "stopAccelerometer", "startCompass",
   "stopCompass", "vibrate", "getLocale"}

StringHelpers == {"launchDeeplink", "launchUri", "launchPayment", "getUserConsent"}

HelperNames == ObjectHelpers \cup StringHelpers

helperClassName(name) ==
  CASE name = "getAuthCode" -> "GPMiniAppAuth"
    [] name \in {"launchDeeplink", "launchUri"} -> "GPNavigator"
    [] name = "launchPayment" -> "GP"
    [] name = "getLocation" -> "GPLocation"
    [] name \in {"getSystemInfo", "getWifiInfo", "getRootedDeviceInfo", "getLocale"}
         -> "GPSystem"
    [] name = "getBankAccountToken" -> "GPBank"
    [] name = "getUserConsent" -> "GPConsent"
    [] name \in {"startAccelerometer", "stopAccelerometer", "startCompass", "stopCompass"}
         -> "GPSensor"
    [] name = "vibrate" -> "GPDevice"

\* every helper names the bridge method after itself
helperMethodName(name) == name

\* faulty variant: a string argument is passed on unshaped
helperParamsUnshaped(name, arg) == DefaultParam(arg, JsObject({}))

helperParams(name, arg) ==
  CASE name \in {"launchDeeplink", "launchPayment"} -> JsObject({<<"deeplink", arg>>})
    [] name = "launchUri" -> JsObject({<<"uri", arg>>})
    [] name = "getUserConsent" -> JsObject({<<"consent_name", arg>>})
    [] OTHER -> DefaultParam(arg, JsObject({}))

(***************************************************************************)
(* useJSAPILoader and the readiness wiring of useMiniapp.                  *)
(* A hook instance is a record: kind ("none" before its first render),     *)
(* mounted, the React state isLoaded / isLoading / error / isReady, the    *)
(* refs scriptRef (0 is null) / loadedRef / readyRef, cleanup (the last    *)
(* effect run returned its cleanup function), dirty (a state update waits  *)
(* for a re-render), effectPending (rendered, effect not yet flushed),     *)
(* shown (what the last render returned) and the number of times the       *)
(* loader's onLoad and the caller's onReady / onError were invoked.        *)
(***************************************************************************)
GOPAY_SDK_URL == "https://gwk.gopayapi.com/sdk/stable/gp-container.min.js"

\* `Failed to load script: ${GOPAY_SDK_URL}`
LoadErrorMessage ==
  "Failed to load script: https://gwk.gopayapi.com/sdk/stable/gp-container.min.js"

HookKinds == {"useMiniapp", "useJSAPILoader"}

\* useState(false) x3, useState(null), useRef(null), useRef(false) x2
NoHook ==
  [kind |-> "none", mounted |-> FALSE,
   isLoaded |-> FALSE, isLoading |-> FALSE, error |-> <<>>, isReady |-> FALSE,
   scriptRef |-> 0, loadedRef |-> FALSE, readyRef |-> FALSE,
   cleanup |-> FALSE, dirty |-> FALSE, effectPending |-> FALSE, shown |-> <<>>,
   onLoadCalls |-> 0, onReadyCalls |-> 0, onErrorCalls |-> 0]

\* the state a render reads
Snapshot(h) ==
  [isLoaded |-> h.isLoaded, isLoading |-> h.isLoading, error |-> h.error,
   isReady |-> h.isReady]

\* a state setter: ignored once unmounted, schedules a re-render when the value changes
SetState(h, h2) ==
  IF ~h.mounted THEN h
  ELSE IF Snapshot(h2) = Snapshot(h) THEN h
  ELSE [h EXCEPT !.isLoaded = h2.isLoaded, !.isLoading = h2.isLoading,
                 !.error = h2.error, !.isReady = h2.isReady, !.dirty = TRUE]

\* faulty variant: the readyRef guard is missing
miniappOnLoadUnguarded(h) ==
  [SetState(h, [h EXCEPT !.isReady = TRUE])
     EXCEPT !.readyRef = TRUE, !.onReadyCalls = @ + 1]

\* useMiniapp's onLoad: if (!readyRef.current) { readyRef.current = true; setIsReady(true); onReady?.() }
miniappOnLoad(h) ==
  IF ~h.readyRef
  THEN [SetState(h, [h EXCEPT !.isReady = TRUE])
          EXCEPT !.readyRef = TRUE, !.onReadyCalls = @ + 1]
  ELSE h

\* onLoad?.() as the loader invokes it
onLoad(h) ==
  LET h2 == [h EXCEPT !.onLoadCalls = @ + 1]
  IN IF h.kind = "useMiniapp" THEN miniappOnLoad(h2) ELSE h2

\* onError?.(err): useMiniapp forwards it to the caller's onError
onError(h) == [h EXCEPT !.onErrorCalls = @ + 1]

\* faulty variant: onLoad is not invoked
markLoadedSilent(h) ==
  [SetState(h, [h EXCEPT !.isLoaded = TRUE]) EXCEPT !.loadedRef = TRUE]

\* loadedRef.current = true; setIsLoaded(true); onLoad?.()
markLoaded(h) ==
  onLoad([SetState(h, [h EXCEPT !.isLoaded = TRUE]) EXCEPT !.loadedRef = TRUE])

\* faulty variant: isLoading is not reset
scriptOnloadKeepsLoading(h) ==
  onLoad([SetState(h, [h EXCEPT !.isLoaded = TRUE]) EXCEPT !.loadedRef = TRUE])

\* script.onload, but for the data-loaded attribute
scriptOnload(h) ==
  onLoad([SetState(h, [h EXCEPT !.isLoaded = TRUE, !.isLoading = FALSE])
            EXCEPT !.loadedRef = TRUE])

\* faulty variant: isLoading is not reset
scriptOnerrorKeepsLoading(h) ==
  onError(SetState(h, [h EXCEPT !.error = <<LoadErrorMessage>>]))

\* script.onerror
scriptOnerror(h) ==
  onError(SetState(h, [h EXCEPT !.error = <<LoadErrorMessage>>, !.isLoading = FALSE]))

\* skipIfExists && skipIfExists(): useMiniapp passes
\* () => typeof window.gpContainer !== 'undefined'; a bare loader passes none here
skipIfExists(h) == h.kind = "useMiniapp" /\ gpContainer

\* a new script element: its owner is the instance whose effect created it (0: the
\* page put it there), listeners are the instances that added a 'load' listener
NewScript(owner) ==
  [owner |-> owner, inDom |-> TRUE, dataLoaded |-> FALSE, fired |-> "none",
   listeners |-> <<>>]

InDom(ss) == {s \in 1..Len(ss) : ss[s].inDom}

\* faulty variant: the lookup never finds a script element
existingScriptNone(ss) == 0

\* document.querySelector(`script[src="${GOPAY_SDK_URL}"]`): the first one, 0 if none
existingScript(ss) ==
  IF InDom(ss) = {} THEN 0 ELSE CHOOSE s \in InDom(ss) : \A t \in InDom(ss) : s <= t

\* faulty variant: the cleanup leaves the document alone
runCleanupNothing(h, ss) == ss

\* the effect's cleanup: remove scriptRef.current if it has a parent node
runCleanup(h, ss) ==
  IF h.cleanup /\ h.scriptRef # 0 /\ ss[h.scriptRef].inDom
  THEN [ss EXCEPT ![h.scriptRef].inDom = FALSE]
  ELSE ss

\* the effect body, on the hook h of instance i and the scripts ss
runEffect(i, h, ss) ==
  IF h.loadedRef THEN [hook |-> [h EXCEPT !.cleanup = FALSE], scripts |-> ss]
  ELSE IF skipIfExists(h)
  THEN [hook |-> [markLoaded(h) EXCEPT !.cleanup = FALSE], scripts |-> ss]
  ELSE IF existingScript(ss) # 0
  THEN IF ss[existingScript(ss)].dataLoaded
       THEN [hook |-> [markLoaded(h) EXCEPT !.cleanup = FALSE], scripts |-> ss]
       ELSE [hook |-> [h EXCEPT !.cleanup = FALSE],
             scripts |-> [ss EXCEPT ![existingScript(ss)].listeners = Append(@, i)]]
  ELSE [hook |-> [SetState(h, [h EXCEPT !.isLoading = TRUE])
                    EXCEPT !.scriptRef = Len(ss) + 1, !.cleanup = TRUE],
        scripts |-> Append(ss, NewScript(i))]

\* whether the effect body would create a script element
effectCreates(h, ss) ==
  ~h.loadedRef /\ ~skipIfExists(h) /\ existingScript(ss) = 0

\* whether the effect body would add a 'load' listener to the script it finds
effectListens(h, ss) ==
  /\ ~h.loadedRef /\ ~skipIfExists(h) /\ existingScript(ss) # 0
  /\ ~ss[existingScript(ss)].dataLoaded

RECURSIVE runListeners(_, _)
\* the 'load' listeners added with addEventListener, in the order they were added
runListeners(hs, ls) ==
  IF ls = <<>> THEN hs
  ELSE runListeners([hs EXCEPT ![Head(ls)] = markLoaded(@)], Tail(ls))

(***************************************************************************)
(* Initial state: a fresh page. The page may already hold a script element *)
(* with the SDK URL, still loading or loaded and marked.                   *)
(***************************************************************************)
PageScripts ==
  {<<>>,
   <<NewScript(0)>>,
   <<[NewScript(0) EXCEPT !.dataLoaded = TRUE, !.fired = "load"]>>}

Init ==
  /\ gpContainer = FALSE
  /\ defaultTimeoutOption \in {JsUndefined, JsNumber(TEST_DEFAULT_TIMEOUT)}
  /\ calls = <<>>
  /\ hooks = [i \in Instances |-> NoHook]
  /\ scripts \in PageScripts

(***************************************************************************)
(* The environment: the host (or the SDK script) exposes the bridge; a     *)
(* script element's fetch ends with its load or its error event.           *)
(***************************************************************************)
BridgeAppears ==
  /\ ~gpContainer
  /\ gpContainer' = TRUE
  /\ UNCHANGED <<defaultTimeoutOption, calls, hooks, scripts>>

ScriptLoad(s) ==
  /\ s \in 1..Len(scripts)
  /\ scripts[s].fired = "none"
  /\ LET o == scripts[s].owner
         owned == IF o = 0 THEN hooks ELSE [hooks EXCEPT ![o] = scriptOnload(@)]
     IN /\ hooks' = runListeners(owned, scripts[s].listeners)
        /\ scripts' = [scripts EXCEPT ![s].fired = "load",
                                      ![s].dataLoaded = (o # 0) \/ @]
  /\ UNCHANGED <<gpContainer, defaultTimeoutOption, calls>>

ScriptError(s) ==
  /\ s \in 1..Len(scripts)
  /\ scripts[s].fired = "none"
  /\ LET o == scripts[s].owner
     IN hooks' = IF o = 0 THEN hooks ELSE [hooks EXCEPT ![o] = scriptOnerror(@)]
  /\ scripts' = [scripts EXCEPT ![s].fired = "error"]
  /\ UNCHANGED <<gpContainer, defaultTimeoutOption, calls>>

(***************************************************************************)
(* React: first render, effect flush, re-render, unmount.                  *)
(***************************************************************************)
Mount(i, k) ==
  /\ hooks[i].kind = "none"
  /\ hooks' = [hooks EXCEPT ![i] = [NoHook EXCEPT !.kind = k, !.mounted = TRUE,
                                                  !.effectPending = TRUE,
                                                  !.shown = <<Snapshot(NoHook)>>]]
  /\ UNCHANGED <<gpContainer, defaultTimeoutOption, calls, scripts>>

\* the effect of the last render: the cleanup of the previous run, then the body
FlushEffect(i) ==
  /\ hooks[i].mounted
  /\ hooks[i].effectPending
  /\ LET cleaned == runCleanup(hooks[i], scripts)
         ran == runEffect(i, hooks[i], cleaned)
     IN /\ effectCreates(hooks[i], cleaned) => Len(scripts) < MaxScripts
        /\ effectListens(hooks[i], cleaned) =>
             Len(cleaned[existingScript(cleaned)].listeners) < MaxListeners
        /\ hooks' = [hooks EXCEPT ![i] = [ran.hook EXCEPT !.effectPending = FALSE]]
        /\ scripts' = ran.scripts
  /\ UNCHANGED <<gpContainer, defaultTimeoutOption, calls>>

\* a re-render, after a state update or because the host component renders again;
\* the loader options of useMiniapp are new closures in every render, so its effect
\* runs again, a bare loader's options keep their identity
Render(i) ==
  /\ hooks[i].mounted
  /\ ~hooks[i].effectPending
  /\ hooks' = [hooks EXCEPT ![i] =
       [@ EXCEPT !.dirty = FALSE,
                 !.shown = <<Snapshot(hooks[i])>>,
                 !.effectPending = (hooks[i].kind = "useMiniapp")]]
  /\ UNCHANGED <<gpContainer, defaultTimeoutOption, calls, scripts>>

Unmount(i) ==
  /\ hooks[i].mounted
  /\ scripts' = runCleanup(hooks[i], scripts)
  /\ hooks' = [hooks EXCEPT ![i] = [@ EXCEPT !.mounted = FALSE, !.dirty = FALSE,
                                             !.effectPending = FALSE, !.cleanup = FALSE]]
  /\ UNCHANGED <<gpContainer, defaultTimeoutOption, calls>>

(***************************************************************************)
(* Invocations of the call surface. An invocation is made through the      *)
(* functions a render of instance i returned; sync and thr are what the    *)
(* bridge's call does before it returns: the callbacks it invokes and the  *)
(* value it throws, if any. An invocation's record keeps its arguments,    *)
(* isReady and the bridge's presence at that moment, the arguments the     *)
(* bridge's call received (bridgeCalls), the callbacks the bridge invoked  *)
(* (deliveries, the first sync of them before its call ended), what its    *)
(* call threw, and the outcome: the promise or the caller's callbacks.     *)
(***************************************************************************)
RECURSIVE SumDeliveries(_)
SumDeliveries(cs) ==
  IF cs = <<>> THEN 0 ELSE Len(Head(cs).deliveries) + SumDeliveries(Tail(cs))

DeliveriesLeft == MaxDeliveries - SumDeliveries(calls)

\* a bridge that is not invoked does nothing
BridgeBehaviour(sync, thr) ==
  /\ Len(sync) <= DeliveriesLeft
  /\ bridgeAbsent => sync = <<>> /\ thr = NoThrow

Invocation(i, via, arg, className, methodName, params, timeout, throwing, outcome) ==
  [inst |-> i, via |-> via, arg |-> arg, className |-> className,
   methodName |-> methodName, params |-> params, timeout |-> timeout,
   throwing |-> throwing, ready |-> hooks[i].isReady, present |-> gpContainer,
   bridgeCalls |-> outcome.bridgeCalls, deliveries |-> outcome.deliveries,
   sync |-> outcome.sync, thrown |-> outcome.thrown, promise |-> outcome.promise, cbLog |-> outcome.cbLog]

call(i, className, methodName, params, timeout, sync, thr) ==
  /\ hooks[i].kind = "useMiniapp"
  /\ Len(calls) < MaxOutstanding
  /\ BridgeBehaviour(sync, thr)
  /\ calls' = Append(calls,
       Invocation(i, "call", JsUndefined, className, methodName, params, timeout, {},
                  callOutcome(className, methodName, params, timeout, sync, thr)))
  /\ UNCHANGED <<gpContainer, defaultTimeoutOption, hooks, scripts>>

\* throwing: the caller's callbacks that throw when invoked
callWithCallbacks(i, className, methodName, params, timeout, throwing, sync, thr) ==
  /\ hooks[i].kind = "useMiniapp"
  /\ Len(calls) < MaxOutstanding
  /\ BridgeBehaviour(sync, thr)
  /\ calls' = Append(calls,
       Invocation(i, "callWithCallbacks", JsUndefined, className, methodName, params,
                  timeout, throwing,
                  cbOutcome(className, methodName, params, timeout, throwing, sync, thr)))
  /\ UNCHANGED <<gpContainer, defaultTimeoutOption, hooks, scripts>>

\* return call(<class>, <method>, <shaped params>)
helper(i, name, arg, sync, thr) ==
  /\ hooks[i].kind = "useMiniapp"
  /\ Len(calls) < MaxOutstanding
  /\ BridgeBehaviour(sync, thr)
  /\ calls' = Append(calls,
       Invocation(i, name, arg, helperClassName(name), helperMethodName(name),
                  helperParams(name, arg), JsUndefined, {},
                  callOutcome(helperClassName(name), helperMethodName(name),
                              helperParams(name, arg), JsUndefined, sync, thr)))
  /\ UNCHANGED <<gpContainer, defaultTimeoutOption, hooks, scripts>>

\* the bridge invokes, after its call has returned or thrown, one of the two
\* callbacks invocation c handed to it
bridgeDeliver(c, d) ==
  /\ c \in 1..Len(calls)
  /\ calls[c].bridgeCalls # <<>>
  /\ DeliveriesLeft > 0
  /\ calls' = [calls EXCEPT ![c] =
       [@ EXCEPT !.deliveries = Append(@, d),
                 !.promise = IF calls[c].via = "callWithCallbacks" THEN @
                             ELSE callDeliver(@, d),
                 !.cbLog = IF calls[c].via = "callWithCallbacks" THEN cbDeliver(@, d)
                           ELSE @]]
  /\ UNCHANGED <<gpContainer, defaultTimeoutOption, hooks, scripts>>

(***************************************************************************)
(* Specifications.                                                         *)
(***************************************************************************)
TestParams == JsObject({<<"param", JsString("value")>>})

\* what a bridge may do before its call ends; nothing when it is not invoked
SyncChoices == IF bridgeAbsent THEN {<<>>} ELSE SeqsUpTo(Deliveries, DeliveriesLeft)

ThrowChoices == IF bridgeAbsent THEN {NoThrow} ELSE {NoThrow} \cup {<<v>> : v \in Thrown}

\* the lifecycle of one useMiniapp instance and the bridge appearing
Next ==
  \/ Mount(1, "useMiniapp")
  \/ FlushEffect(1)
  \/ Render(1)
  \/ Unmount(1)
  \/ \E s \in 1..Len(scripts) : ScriptLoad(s) \/ ScriptError(s)
  \/ BridgeAppears

Spec == Init /\ [][Next]_vars

\* the same lifecycle under the scheduling the runtime guarantees: React flushes a
\* pending effect and re-renders after a state update, and a script element's fetch
\* ends with its load or its error event; the host's own re-renders, the unmount and
\* the bridge's appearance are not owed
LiveSpec ==
  /\ Init /\ [][Next]_vars
  /\ WF_vars(FlushEffect(1))
  /\ WF_vars(hooks[1].dirty /\ Render(1))
  /\ WF_vars(\E s \in 1..Len(scripts) : ScriptLoad(s) \/ ScriptError(s))

\* mounting, loading and unmounting, with the helpers called at any moment
HelperNext ==
  \/ Mount(1, "useMiniapp")
  \/ FlushEffect(1)
  \/ hooks[1].dirty /\ Render(1)
  \/ Unmount(1)
  \/ \E s \in 1..Len(scripts) : ScriptLoad(s)
  \/ BridgeAppears
  \/ /\ Len(calls) < MaxCalls
     /\ \E name \in ObjectHelpers : helper(1, name, JsUndefined, <<>>, NoThrow)
  \/ /\ Len(calls) < MaxCalls
     /\ \E name \in StringHelpers :
          helper(1, name, JsString("gojek://home"), <<>>, NoThrow)

HelperInit == Init /\ defaultTimeoutOption = JsUndefined /\ scripts = <<>>

HelperSpec == HelperInit /\ [][HelperNext]_vars

\* every behaviour of the bridge towards call and callWithCallbacks
CallNext ==
  \/ Mount(1, "useMiniapp")
  \/ BridgeAppears
  \/ /\ Len(calls) < MaxCalls
     /\ \E sync \in SyncChoices, thr \in ThrowChoices :
          \/ call(1, "TestClass", "testMethod", JsUndefined, JsUndefined, sync, thr)
          \/ \E throwing \in {{}, {"successCallback"}} :
               callWithCallbacks(1, "TestClass", "testMethod", JsObject({}), JsUndefined,
                                 throwing, sync, thr)
  \/ /\ DeliveriesLeft > 0
     /\ \E c \in 1..Len(calls), d \in Deliveries : bridgeDeliver(c, d)

CallInit == Init /\ defaultTimeoutOption = JsUndefined /\ scripts = <<>>

CallSpec == CallInit /\ [][CallNext]_vars

\* two hook instances in one page: a useMiniapp and a second useMiniapp or a bare
\* useJSAPILoader, rendering, loading and unmounting in any order
LoaderNext ==
  \/ Mount(1, "useMiniapp")
  \/ \E k \in HookKinds : Mount(2, k)
  \/ \E i \in Instances : FlushEffect(i)
  \/ \E i \in Instances : Render(i)
  \/ \E i \in Instances : Unmount(i)
  \/ \E s \in 1..Len(scripts) : ScriptLoad(s)
  \/ BridgeAppears

LoaderInit == Init /\ defaultTimeoutOption = JsUndefined /\ scripts = <<>>

LoaderSpec == LoaderInit /\ [][LoaderNext]_vars

\* a useMiniapp and a bare useJSAPILoader in one page, either one creating the script
\* element the other one finds
PairNext ==
  \/ Mount(1, "useMiniapp")
  \/ Mount(2, "useJSAPILoader")
  \/ \E i \in Instances : FlushEffect(i)
  \/ \E i \in Instances : Render(i)
  \/ \E i \in Instances : Unmount(i)
  \/ \E s \in 1..Len(scripts) : ScriptLoad(s)
  \/ \E s \in 1..Len(scripts) : ScriptError(s)
  \/ BridgeAppears

PairSpec == LoaderInit /\ [][PairNext]_vars

\* several invocations outstanding at once: the bridge's call returns without having
\* invoked a callback and the bridge completes the invocations later, in any order
ConcurrentNext ==
  \/ Mount(1, "useMiniapp")
  \/ BridgeAppears
  \/ /\ Len(calls) < MaxOutstanding
     /\ \/ call(1, "TestClass", "testMethod", TestParams, JsUndefined, <<>>, NoThrow)
        \/ callWithCallbacks(1, "TestClass", "testMethod", TestParams, JsUndefined, {},
                             <<>>, NoThrow)
  \/ /\ DeliveriesLeft > 0
     /\ \E c \in 1..Len(calls), d \in Deliveries : bridgeDeliver(c, d)

ConcurrentSpec == CallInit /\ [][ConcurrentNext]_vars

\* every argument of call, callWithCallbacks and the helpers
ArgsNext ==
  \/ Mount(1, "useMiniapp")
  \/ BridgeAppears
  \/ /\ Len(calls) < MaxCalls
     /\ \E params \in {JsUndefined, JsObject({}), TestParams},
           timeout \in {JsUndefined, JsNumber(TEST_TIMEOUT)},
           thr \in {NoThrow, <<ThrownError>>} \cap ThrowChoices :
          \/ call(1, "TestClass", "testMethod", params, timeout, <<>>, thr)
          \/ callWithCallbacks(1, "TestClass", "testMethod", params, timeout, {},
                               <<>>, thr)
  \/ /\ Len(calls) < MaxCalls
     /\ \E name \in ObjectHelpers,
           arg \in {JsUndefined, JsObject({<<"scope", JsString("user")>>})},
           thr \in {NoThrow, <<ThrownError>>} \cap ThrowChoices :
          helper(1, name, arg, <<>>, thr)
  \/ /\ Len(calls) < MaxCalls
     /\ \E name \in StringHelpers,
           arg \in {JsString("gojek://home"), JsString("marketing")},
           thr \in {NoThrow, <<ThrownError>>} \cap ThrowChoices :
          helper(1, name, arg, <<>>, thr)

ArgsInit == Init /\ scripts = <<>>

ArgsSpec == ArgsInit /\ [][ArgsNext]_vars

(***************************************************************************)
(* Properties.                                                             *)
(***************************************************************************)
Calls == {calls[k] : k \in 1..Len(calls)}

Generic == {"call", "callWithCallbacks"}

Rejected(e) == <<[kind |-> "rejected", value |-> e]>>

Resolved(e) == <<[kind |-> "resolved", value |-> e]>>

Failure(e) == [cb |-> "failureCallback", value |-> e]

Success(e) == [cb |-> "successCallback", value |-> e]

NotLoadedEnvelope ==
  [success |-> FALSE, error_code |-> "SDK_NOT_LOADED", error_type |-> "JS_BRIDGE_ERROR",
   error_message |-> "GoPay SDK is not loaded yet", ret |-> "GP_EXCEPTION"]

CallExceptionEnvelope(m) ==
  [success |-> FALSE, error_code |-> "CALL_EXCEPTION", error_type |-> "JS_BRIDGE_ERROR",
   error_message |-> m, ret |-> "GP_EXCEPTION"]

\* the bridge's k-th callback invocation is the first thing it did for invocation c
\* (its call had not thrown before), so that c's promise was pending
FirstAct(c, k) == k = 1 /\ (c.thrown = NoThrow \/ c.sync >= 1)

\* the place in c.cbLog of the caller's callback that the bridge's k-th callback
\* invocation invoked: the catch block's failureCallback comes after the sync ones
CbIndex(c, k) == IF c.thrown # NoThrow /\ k > c.sync THEN k + 1 ELSE k

\* C1: an invocation of call or callWithCallbacks made while window.gpContainer is
\* absent fails with exactly the SDK_NOT_LOADED envelope (the promise is rejected
\* with it; failureCallback is invoked with it and successCallback never is), and
\* the bridge's call is never invoked for it, not even once the bridge has appeared.
C1_SdkNotLoaded ==
  \A c \in Calls :
    (c.via \in Generic /\ ~c.present) =>
      /\ c.bridgeCalls = <<>>
      /\ c.deliveries = <<>>
      /\ c.via = "call" => c.promise = Rejected(NotLoadedEnvelope) /\ c.cbLog = <<>>
      /\ c.via = "callWithCallbacks" =>
           c.cbLog = <<Failure(NotLoadedEnvelope)>> /\ c.promise = <<>>

C1_Witness ==
  \E c \in Calls :
    /\ c.via = "callWithCallbacks" /\ ~c.present /\ gpContainer
    /\ c.params = TestParams /\ c.timeout = JsNumber(TEST_TIMEOUT)
    /\ c.cbLog = <<Failure(NotLoadedEnvelope)>>

\* C2: when the bridge invokes the success callback with an envelope whose success
\* field is false, callWithCallbacks invokes failureCallback (not successCallback)
\* with that envelope, and call, whose promise that response finds pending, rejects
\* with that envelope; such a response never resolves the promise.
C2_SuccessChannelFalse ==
  \A c \in Calls : \A k \in 1..Len(c.deliveries) :
    ( /\ c.bridgeCalls # <<>>
      /\ c.deliveries[k].channel = "success"
      /\ "success" \in DOMAIN c.deliveries[k].response
      /\ c.deliveries[k].response.success = FALSE ) =>
      /\ c.via = "callWithCallbacks" =>
           c.cbLog[CbIndex(c, k)] = Failure(c.deliveries[k].response)
      /\ c.via = "call" => c.promise # Resolved(c.deliveries[k].response)
      /\ (c.via = "call" /\ FirstAct(c, k)) =>
           c.promise = Rejected(c.deliveries[k].response)

C2_Witness ==
  \E c \in Calls :
    /\ c.via = "call" /\ c.sync = 0 /\ c.thrown = NoThrow
    /\ c.deliveries = <<[channel |-> "success", response |-> ErrorResponse]>>
    /\ c.promise = Rejected(ErrorResponse)

\* C3: when the bridge invokes the success callback with an envelope whose success
\* field is true, callWithCallbacks invokes successCallback (not failureCallback)
\* with that envelope, and call, whose promise that response finds pending, resolves
\* with that envelope, ret and data unchanged.
C3_SuccessChannelTrue ==
  \A c \in Calls : \A k \in 1..Len(c.deliveries) :
    ( /\ c.bridgeCalls # <<>>
      /\ c.deliveries[k].channel = "success"
      /\ "success" \in DOMAIN c.deliveries[k].response
      /\ c.deliveries[k].response.success = TRUE ) =>
      /\ c.via = "callWithCallbacks" =>
           c.cbLog[CbIndex(c, k)] = Success(c.deliveries[k].response)
      /\ (c.via = "call" /\ FirstAct(c, k)) =>
           c.promise = Resolved(c.deliveries[k].response)

C3_Witness ==
  \E c \in Calls :
    /\ c.via = "callWithCallbacks" /\ c.throwing = {} /\ c.thrown = NoThrow
    /\ c.deliveries = <<[channel |-> "success", response |-> SuccessResponse]>>
    /\ c.cbLog = <<Success(SuccessResponse)>>
    /\ c.cbLog[1].value.data = {<<"id", JsNumber(123)>>}

\* C4: when the bridge invokes the failure callback with an envelope, whatever its
\* fields, callWithCallbacks invokes failureCallback with that envelope, and call,
\* whose promise that response finds pending, rejects with that envelope.
C4_FailureChannel ==
  \A c \in Calls : \A k \in 1..Len(c.deliveries) :
    (c.bridgeCalls # <<>> /\ c.deliveries[k].channel = "failure") =>
      /\ c.via = "callWithCallbacks" =>
           c.cbLog[CbIndex(c, k)] = Failure(c.deliveries[k].response)
      /\ (c.via = "call" /\ FirstAct(c, k)) =>
           c.promise = Rejected(c.deliveries[k].response)

C4_Witness ==
  \E c \in Calls :
    /\ c.via = "call" /\ c.thrown = NoThrow
    /\ c.deliveries = <<[channel |-> "failure", response |-> SuccessResponse]>>
    /\ c.promise = Rejected(SuccessResponse)

\* C5 as stated: when the bridge's call throws, the promise of call is rejected with
\* the CALL_EXCEPTION envelope whose error_message is the thrown value's message, or
\* "Unknown error occurred" when it carries none, whatever the bridge did before.
C5_AsStated ==
  \A c \in Calls :
    (c.via = "call" /\ c.present /\ c.thrown # NoThrow) =>
      c.promise = Rejected(CallExceptionEnvelope(
                    IF c.thrown[1].hasMessage THEN c.thrown[1].message
                    ELSE "Unknown error occurred"))

\* C5 amended: when the bridge's call throws before it has invoked a callback, the
\* promise of call is rejected with the CALL_EXCEPTION envelope whose error_message
\* is the thrown value's message if that value is an Error, and "Unknown error
\* occurred" for any other thrown value; when the bridge had invoked a callback
\* before throwing, the promise keeps the outcome of the first one.
C5_CallException ==
  \A c \in Calls :
    (c.via = "call" /\ c.present /\ c.thrown # NoThrow) =>
      IF c.sync = 0
      THEN c.promise = Rejected(CallExceptionEnvelope(
                         IF c.thrown[1].isError THEN c.thrown[1].message
                         ELSE "Unknown error occurred"))
      ELSE /\ Len(c.promise) = 1
           /\ c.promise[1].value = c.deliveries[1].response

C5_Witness ==
  \E c \in Calls :
    /\ c.via = "call" /\ c.present /\ c.sync = 0
    /\ c.thrown = <<ThrownError>>
    /\ c.promise = Rejected(CallExceptionEnvelope("Test exception"))

\* C6: an invocation has at most one outcome: the caller's successCallback and
\* failureCallback are invoked at most once in total, the promise settles at most once.
C6_SingleOutcome ==
  \A c \in Calls : Len(c.cbLog) + Len(c.promise) <= 1

\* C7: an invocation of call or callWithCallbacks made while the bridge is present
\* invokes the bridge's call exactly once, with className, methodName and params as
\* given ({} for omitted params) and with the explicit timeout, else the hook's
\* defaultTimeout option, else 300000.
C7_BridgeArguments ==
  \A c \in Calls :
    (c.via \in Generic /\ c.present) =>
      c.bridgeCalls =
        <<[className |-> c.className, methodName |-> c.methodName,
           params |-> IF c.params = JsUndefined THEN JsObject({}) ELSE c.params,
           timeout |-> IF c.timeout # JsUndefined THEN c.timeout
                       ELSE IF defaultTimeoutOption # JsUndefined
                            THEN defaultTimeoutOption
                            ELSE JsNumber(300000)]>>

C7_Witness ==
  \E c \in Calls :
    /\ c.via = "call" /\ c.present /\ c.thrown # NoThrow
    /\ c.params = JsUndefined /\ c.timeout = JsUndefined
    /\ defaultTimeoutOption = JsUndefined
    /\ Len(c.bridgeCalls) = 1
    /\ c.bridgeCalls[1].timeout.num = 300000
    /\ c.bridgeCalls[1].params = JsObject({})

HelperClass(name) ==
  CASE name = "getAuthCode" -> "GPMiniAppAuth"
    [] name = "launchDeeplink" -> "GPNavigator"
    [] name = "launchUri" -> "GPNavigator"
    [] name = "launchPayment" -> "GP"
    [] name = "getLocation" -> "GPLocation"
    [] name = "getSystemInfo" -> "GPSystem"
    [] name = "getWifiInfo" -> "GPSystem"
    [] name = "getRootedDeviceInfo" -> "GPSystem"
    [] name = "getLocale" -> "GPSystem"
    [] name = "getBankAccountToken" -> "GPBank"
    [] name = "getUserConsent" -> "GPConsent"
    [] name = "startAccelerometer" -> "GPSensor"
    [] name = "stopAccelerometer" -> "GPSensor"
    [] name = "startCompass" -> "GPSensor"
    [] name = "stopCompass" -> "GPSensor"
    [] name = "vibrate" -> "GPDevice"

HelperShape(name, arg) ==
  CASE name = "launchDeeplink" -> JsObject({<<"deeplink", arg>>})
    [] name = "launchUri" -> JsObject({<<"uri", arg>>})
    [] name = "launchPayment" -> JsObject({<<"deeplink", arg>>})
    [] name = "getUserConsent" -> JsObject({<<"consent_name", arg>>})
    [] OTHER -> IF arg = JsUndefined THEN JsObject({}) ELSE arg

\* C8: a helper called while the bridge is present invokes the bridge's call exactly
\* once, with its class, the method of its own name and its shaped params (a string
\* wrapped under deeplink / uri / consent_name, an object passed through), and its
\* promise is the one call gives for these arguments.
C8_Helpers ==
  \A c \in Calls :
    (c.via \in HelperNames /\ c.present) =>
      /\ Len(c.bridgeCalls) = 1
      /\ c.bridgeCalls[1].className = HelperClass(c.via)
      /\ c.bridgeCalls[1].methodName = c.via
      /\ c.bridgeCalls[1].params = HelperShape(c.via, c.arg)
      /\ c.promise = callOutcome(HelperClass(c.via), c.via, HelperShape(c.via, c.arg),
                                 JsUndefined, c.deliveries, c.thrown).promise

C8_Witness ==
  \E c \in Calls :
    /\ c.via = "getUserConsent" /\ c.present /\ c.arg = JsString("marketing")
    /\ Len(c.bridgeCalls) = 1
    /\ c.bridgeCalls[1].className = "GPConsent"
    /\ c.bridgeCalls[1].params = JsObject({<<"consent_name", JsString("marketing")>>})

\* C9 as stated: a helper called while isReady is false fails with SDK_NOT_LOADED
\* and the bridge's call is not invoked.
C9_AsStated ==
  \A c \in Calls :
    (c.via \in HelperNames /\ ~c.ready) =>
      c.promise = Rejected(NotLoadedEnvelope) /\ c.bridgeCalls = <<>>

\* C9 amended: a helper called while isReady is false and window.gpContainer is
\* absent fails with SDK_NOT_LOADED and the bridge's call is not invoked.
C9_HelpersBeforeBridge ==
  \A c \in Calls :
    (c.via \in HelperNames /\ ~c.ready /\ ~c.present) =>
      c.promise = Rejected(NotLoadedEnvelope) /\ c.bridgeCalls = <<>>

C9_Witness ==
  \E c \in Calls :
    /\ c.via = "getUserConsent" /\ ~c.ready /\ ~c.present
    /\ hooks[c.inst].isLoading /\ gpContainer
    /\ c.promise = Rejected(NotLoadedEnvelope)

\* C10: isReady of a useMiniapp instance implies that window.gpContainer is present.
C10_ReadyImpliesBridge ==
  \A i \in Instances : hooks[i].isReady => gpContainer

(***************************************************************************)
(* The loader and readiness.                                               *)
(***************************************************************************)
\* the script elements instance i created
CreatedBy(i) == {s \in 1..Len(scripts) : scripts[s].owner = i}

\* instance i's effect runs in this step
Activated(i) ==
  hooks[i].mounted /\ hooks[i].effectPending /\ hooks'[i].mounted /\ ~hooks'[i].effectPending

\* the load / error event fires on script element s in this step
LoadFires(s) == scripts[s].fired = "none" /\ scripts'[s].fired = "load"

ErrorFires(s) == scripts[s].fired = "none" /\ scripts'[s].fired = "error"

\* C11: within one useMiniapp instance's lifetime, whatever the re-renders, effect
\* re-runs and load events, onReady is invoked at most once and isReady never goes
\* back from true to false
C11_ReadyOnce ==
  /\ [](\A i \in Instances : hooks[i].onReadyCalls <= 1)
  /\ [][\A i \in Instances : hooks[i].isReady => hooks'[i].isReady]_vars

\* the loader's onLoad reached the instance twice, onReady was invoked once
C11_Witness ==
  \E i \in Instances :
    /\ hooks[i].kind = "useMiniapp" /\ hooks[i].isReady
    /\ hooks[i].onLoadCalls >= 2 /\ hooks[i].onReadyCalls = 1

\* C12: whatever the activations, re-renders and deactivations of the loader
\* instances of a page, at most one script element for the SDK URL is ever created
C12_SingleScriptEver ==
  Cardinality({s \in 1..Len(scripts) : scripts[s].owner # 0}) <= 1

\* C13: the document never holds more than one script element with the SDK URL, also
\* when a second instance is activated while the first one's script is still loading
C13_SingleScriptInDocument == Cardinality(InDom(scripts)) <= 1

\* both instances are activated, the second found the first one's pending script
C13_Witness ==
  \E s \in InDom(scripts) :
    /\ scripts[s].fired = "none" /\ scripts[s].owner # 0
    /\ \E j \in Instances :
         /\ j # scripts[s].owner
         /\ \E n \in 1..Len(scripts[s].listeners) : scripts[s].listeners[n] = j
         /\ hooks[j].mounted /\ ~hooks[j].effectPending
    /\ hooks[scripts[s].owner].mounted

\* C14: an effect run of an instance not yet marked loaded whose skipIfExists returns
\* true creates no script element, invokes onLoad during the run and leaves the
\* instance with isLoaded true and isLoading false
C14_SkipIfExists ==
  [][\A i \in Instances :
       (Activated(i) /\ ~hooks[i].loadedRef /\ skipIfExists(hooks[i])) =>
         /\ Len(scripts') = Len(scripts)
         /\ hooks'[i].onLoadCalls = hooks[i].onLoadCalls + 1
         /\ hooks'[i].isLoaded
         /\ ~hooks'[i].isLoading]_vars

\* C15: when the load event fires on a script element created by an instance that is
\* still mounted, the element gets the data-loaded marker, the instance has isLoaded
\* true and isLoading false and its onLoad is invoked; a useMiniapp instance then has
\* isReady true with isLoading false, and onReady is invoked by this event unless an
\* earlier one already invoked it
C15_ScriptLoad ==
  [][\A s \in 1..Len(scripts) :
       LET o == scripts[s].owner
       IN (LoadFires(s) /\ o # 0 /\ hooks[o].mounted) =>
            /\ scripts'[s].dataLoaded
            /\ hooks'[o].isLoaded /\ ~hooks'[o].isLoading
            /\ hooks'[o].onLoadCalls = hooks[o].onLoadCalls + 1
            /\ hooks[o].kind = "useMiniapp" =>
                 /\ hooks'[o].isReady /\ ~hooks'[o].isLoading
                 /\ hooks'[o].onReadyCalls = 1
                 /\ ~hooks[o].readyRef => hooks[o].onReadyCalls = 0]_vars

\* the load event has fired on the script of a mounted useMiniapp instance
C15_Witness ==
  \E s \in 1..Len(scripts) :
    LET o == scripts[s].owner
    IN /\ o # 0 /\ scripts[s].fired = "load" /\ scripts[s].dataLoaded
       /\ hooks[o].kind = "useMiniapp" /\ hooks[o].mounted
       /\ hooks[o].isLoaded /\ hooks[o].isReady /\ ~hooks[o].isLoading
       /\ hooks[o].onReadyCalls = 1

\* C16: when the error event fires on a script element created by an instance that is
\* still mounted, the instance's error becomes "Failed to load script: <SDK URL>",
\* isLoading becomes false, isLoaded is left as it was and onError is invoked once; a
\* useMiniapp instance's isReady is left as it was and onReady is not invoked
C16_ScriptError ==
  [][\A s \in 1..Len(scripts) :
       LET o == scripts[s].owner
       IN (ErrorFires(s) /\ o # 0 /\ hooks[o].mounted) =>
            /\ hooks'[o].error = <<LoadErrorMessage>>
            /\ ~hooks'[o].isLoading
            /\ hooks'[o].isLoaded = hooks[o].isLoaded
            /\ hooks'[o].loadedRef = hooks[o].loadedRef
            /\ hooks'[o].onErrorCalls = hooks[o].onErrorCalls + 1
            /\ hooks'[o].onLoadCalls = hooks[o].onLoadCalls
            /\ hooks'[o].isReady = hooks[o].isReady
            /\ hooks'[o].onReadyCalls = hooks[o].onReadyCalls]_vars

\* the error event has fired on the script of a mounted useMiniapp instance that was
\* loading
C16_Witness ==
  \E s \in 1..Len(scripts) :
    LET o == scripts[s].owner
    IN /\ o # 0 /\ scripts[s].fired = "error"
       /\ hooks[o].kind = "useMiniapp" /\ hooks[o].mounted
       /\ hooks[o].error = <<LoadErrorMessage>> /\ ~hooks[o].isLoading
       /\ ~hooks[o].isLoaded /\ ~hooks[o].isReady
       /\ hooks[o].onErrorCalls = 1 /\ hooks[o].onReadyCalls = 0

\* the error event has fired on a script element instance i created
Errored(i) == \E s \in CreatedBy(i) : scripts[s].fired = "error"

\* C17: once the error event has fired for an instance, no step makes that instance
\* create another script element, set isLoading back to true or become loaded
C17_NoRetry ==
  [][\A i \in Instances :
       Errored(i) =>
         /\ \A s \in 1..Len(scripts') : s > Len(scripts) => scripts'[s].owner # i
         /\ hooks'[i].isLoading => hooks[i].isLoading
         /\ hooks'[i].isLoaded => hooks[i].isLoaded]_vars

\* C18: an effect run of an instance not yet marked loaded, with skipIfExists absent or
\* returning false, in a document that already holds a script element with the SDK
\* URL carrying the data-loaded marker, makes the instance loaded, invokes onLoad and
\* creates no script element: the document still holds exactly one
C18_ReusesLoadedScript ==
  [][\A i \in Instances :
       LET e == existingScript(scripts)
       IN (/\ Activated(i) /\ ~hooks[i].loadedRef /\ ~skipIfExists(hooks[i])
           /\ e # 0 /\ scripts[e].dataLoaded) =>
            /\ hooks'[i].isLoaded /\ hooks'[i].loadedRef
            /\ hooks'[i].onLoadCalls = hooks[i].onLoadCalls + 1
            /\ Len(scripts') = Len(scripts)
            /\ InDom(scripts') = {e}]_vars

\* an instance became loaded from a marked script element it did not create
C18_Witness ==
  \E i \in Instances :
    /\ hooks[i].mounted /\ ~hooks[i].effectPending /\ ~gpContainer
    /\ hooks[i].isLoaded /\ hooks[i].onLoadCalls = 1
    /\ CreatedBy(i) = {}
    /\ existingScript(scripts) # 0 /\ scripts[existingScript(scripts)].dataLoaded

\* C19: what an instance's render returns is one LoadState: never isLoaded with
\* isLoading, never isLoading with an error, never isLoaded with an error, and the same
\* for useMiniapp's isReady in the place of isLoaded
C19_OneLoadState ==
  \A i \in Instances :
    hooks[i].shown # <<>> =>
      LET v == hooks[i].shown[1]
      IN /\ ~(v.isLoaded /\ v.isLoading)
         /\ ~(v.isLoading /\ v.error # <<>>)
         /\ ~(v.isLoaded /\ v.error # <<>>)
         /\ hooks[i].kind = "useMiniapp" =>
              /\ ~(v.isReady /\ v.isLoading)
              /\ ~(v.isReady /\ v.error # <<>>)

\* C20: a script element in the document stays there in every step in which the
\* instance that created it stays mounted
C20_ScriptStaysWhileMounted ==
  [][\A s \in 1..Len(scripts) :
       LET o == scripts[s].owner
       IN (scripts[s].inDom /\ o # 0 /\ hooks[o].mounted /\ hooks'[o].mounted) =>
            scripts'[s].inDom]_vars

\* C21: over an instance's lifetime the loader invokes onLoad at most once, whatever
\* the path, the re-renders and the load events
C21_OnLoadOnce == \A i \in Instances : hooks[i].onLoadCalls <= 1

\* instance j added a 'load' listener to script element s
Listens(j, s) == \E n \in 1..Len(scripts[s].listeners) : scripts[s].listeners[n] = j

\* C23: an effect run that finds an unmarked script element with the SDK URL creates
\* no element, and when that element's load event fires, every mounted instance that
\* found it becomes loaded and has its onLoad invoked exactly once
C23_OneTimeListener ==
  [][/\ \A i \in Instances :
          (Activated(i) /\ effectListens(hooks[i], runCleanup(hooks[i], scripts))) =>
            Len(scripts') = Len(scripts)
     /\ \A s \in 1..Len(scripts), j \in Instances :
          (LoadFires(s) /\ Listens(j, s) /\ hooks[j].mounted) =>
            /\ hooks'[j].isLoaded
            /\ hooks'[j].onLoadCalls = hooks[j].onLoadCalls + 1]_vars

\* C25: every render of a useMiniapp instance returns isLoading true, an error or
\* isReady true
C25_NeverBlank ==
  \A i \in Instances :
    (hooks[i].kind = "useMiniapp" /\ hooks[i].shown # <<>>) =>
      LET v == hooks[i].shown[1]
      IN v.isLoading \/ v.error # <<>> \/ v.isReady

\* C27: once an instance is unmounted, none of the callbacks supplied to it is invoked
C27_SilentAfterUnmount ==
  [][\A i \in Instances :
       (hooks[i].kind # "none" /\ ~hooks[i].mounted) =>
         /\ hooks'[i].onLoadCalls = hooks[i].onLoadCalls
         /\ hooks'[i].onReadyCalls = hooks[i].onReadyCalls
         /\ hooks'[i].onErrorCalls = hooks[i].onErrorCalls]_vars

\* instance i waits on script element s: it created it or added a listener to it
DependsOn(i, s) ==
  s <= Len(scripts) /\ (scripts[s].owner = i \/ Listens(i, s))

\* C22: a mounted instance that waits on a script element reports an outcome once the
\* element has fired: isLoaded after its load event, an error (with onError invoked)
\* after its error event; it does not stay without either after the element failed
C22_OutcomeReported ==
  \A i \in Instances : \A s \in 1..MaxScripts :
    /\ (DependsOn(i, s) /\ scripts[s].fired = "load" /\ hooks[i].mounted)
          ~> (hooks[i].isLoaded \/ ~hooks[i].mounted)
    /\ (DependsOn(i, s) /\ scripts[s].fired = "error" /\ hooks[i].mounted)
          ~> (\/ hooks[i].error # <<>> /\ hooks[i].onErrorCalls > 0
              \/ hooks[i].isLoaded
              \/ ~hooks[i].mounted)

\* instance i is unmounted in this step
Deactivated(i) == hooks[i].mounted /\ ~hooks'[i].mounted

\* C24: when an instance is unmounted, a script element leaves the document if and
\* only if it was in the document and this instance created it; an instance that took
\* the skipIfExists path or reused an element removes nothing
C24_CleanupOwnScript ==
  [][\A i \in Instances :
       Deactivated(i) =>
         /\ Len(scripts') = Len(scripts)
         /\ \A s \in 1..Len(scripts) :
              (scripts[s].inDom /\ ~scripts'[s].inDom)
                <=> (scripts[s].inDom /\ scripts[s].owner = i)]_vars

\* a bare loader that created its element has been unmounted and the element is gone
C24_Witness ==
  /\ hooks[2].kind = "useJSAPILoader" /\ ~hooks[2].mounted
  /\ CreatedBy(2) # {} /\ InDom(scripts) = {}
  /\ hooks[1].mounted /\ ~hooks[1].effectPending /\ Listens(1, 1)

(***************************************************************************)
(* call and callWithCallbacks side by side.                                *)
(***************************************************************************)
\* the promise call would return for the bridge state and bridge behaviour recorded
\* in invocation c
CallWould(c) ==
  IF ~c.present THEN reject(<<>>, SdkNotLoadedError)
  ELSE callRunSync(callCatch(callRunSync(<<>>, SubSeq(c.deliveries, 1, c.sync)),
                             c.thrown),
                   SubSeq(c.deliveries, c.sync + 1, Len(c.deliveries)))

\* the caller's callbacks that report promise p
ReportOf(p) ==
  IF p = <<>> THEN <<>>
  ELSE <<[cb |-> IF p[1].kind = "resolved" THEN "successCallback"
                 ELSE "failureCallback",
          value |-> p[1].value]>>

\* C26: for the same bridge state and bridge behaviour, callWithCallbacks invokes
\* successCallback with e exactly when call resolves with e and failureCallback with e
\* exactly when call rejects with e
C26_SameOutcome ==
  \A k \in 1..Len(calls) :
    (calls[k].via = "callWithCallbacks" /\ calls[k].throwing = {}) =>
      calls[k].cbLog = ReportOf(CallWould(calls[k]))

\* the bridge invokes a callback of invocation c in this step
Delivered(c) ==
  Len(calls') = Len(calls) /\ Len(calls'[c].deliveries) = Len(calls[c].deliveries) + 1

\* the outcome the delivered envelope stands for
OutcomeOf(d) ==
  IF d.channel = "success" /\ SuccessField(d.response) THEN "success" ELSE "failure"

\* C28: every invocation made with the bridge present reaches the bridge once, also
\* when an identical one is outstanding, and a callback the bridge invokes for one
\* invocation settles that invocation with the delivered envelope and leaves every
\* other invocation as it was, in whatever order the bridge completes them
C28_IndependentCalls ==
  /\ [](\A c \in 1..Len(calls) : calls[c].present => Len(calls[c].bridgeCalls) = 1)
  /\ [][\A c \in 1..Len(calls) :
         Delivered(c) =>
           LET d == calls'[c].deliveries[Len(calls'[c].deliveries)]
           IN /\ \A o \in 1..Len(calls) : o # c => calls'[o] = calls[o]
              /\ (calls[c].via = "call" /\ calls[c].promise = <<>>) =>
                   calls'[c].promise =
                     <<[kind |-> IF OutcomeOf(d) = "success" THEN "resolved"
                                 ELSE "rejected",
                        value |-> d.response]>>
              /\ calls[c].via = "callWithCallbacks" =>
                   calls'[c].cbLog =
                     Append(calls[c].cbLog,
                            [cb |-> IF OutcomeOf(d) = "success" THEN "successCallback"
                                    ELSE "failureCallback",
                             value |-> d.response])]_vars

\* two identical calls reached the bridge; the bridge completed the second one and
\* the first is still pending
C28_Witness ==
  /\ Len(calls) = 2
  /\ calls[1].via = "call" /\ calls[2].via = "call"
  /\ calls[1].bridgeCalls # <<>> /\ calls[1].bridgeCalls = calls[2].bridgeCalls
  /\ calls[1].promise = <<>> /\ calls[2].promise # <<>>


====
